---- MODULE Spec2Model ----
(***************************************************************************)
(* A model of src/window.rs: the Window session (frame pacing, event       *)
(* draining, the running flag, the event queue) and the image-font parser  *)
(* parse_image_font.                                                       *)
(*                                                                         *)
(* Spec      the session: the caller drives one Window from a single       *)
(*           thread; the timer and the native event source are the         *)
(*           environment.                                                  *)
(* FontSpec  parse_image_font applied to every pixel buffer and alphabet   *)
(*           string within the bounds.                                     *)
(***************************************************************************)
EXTENDS Integers, Sequences, FiniteSets, TLC

(***************************************************************************)
(* Bounds of the model.                                                    *)
(***************************************************************************)
\* the timer source is followed up to this tick value
MaxTicks == 36
\* native events that arrive during one run
MaxEvents == 2
\* length of the flat pixel buffer handed to parse_image_font
MaxPixels == 5
\* length of the alphabet string handed to parse_image_font
MaxAlphabet == 2
\* length of the text handed to print
MaxText == 3

(***************************************************************************)
(* Program constants.                                                      *)
(***************************************************************************)
\* window.rs:118  self.timer_subsystem.delay(3)
DelayMs == 3
\* window.rs:273  current_x += 5
MissingGlyphGap == 5
\* window.rs:85   (1000.0 / 60.0) as u32
MillisPerSecond == 1000
FramesPerSecond == 60

\* window.rs:93   window.set_color(255, 255, 255, 255)
White == <<255, 255, 255, 255>>
Red == <<255, 0, 0, 255>>
Colors == {White, Red}

\* the default font loaded by Window::new, and one font the caller loaded
Fonts == {"default", "custom"}

\* native (SDL) events, by the way Event::from_sdl2_event treats them
NativeEvents == {"SdlQuit", "SdlKeyDown", "SdlMouseMotion", "SdlOther"}

\* values a byte of the pixel buffer takes, and the characters of alphabets
PixelValues == {0, 1, 2}
Chars == {"a", "b", "c"}

VARIABLES
    \* ---- struct Window
    running,
    event_queue,
    foreground_color,
    font,
    target_ticks_per_frame,
    ticks_at_previous_frame,
    \* ---- the SDL collaborators
    presented,       \* number of canvas.present() calls
    now,             \* the value timer_subsystem.ticks() returned last
    pending,         \* events waiting in event_pump, oldest first
    \* ---- the caller's position
    pc,              \* "idle", or inside next_frame: "wait", "drain"
    current_ticks,   \* local of next_frame
    ret,             \* the operation called last and what it returned
    panicked,        \* the thread panicked
    \* ---- history
    arrived,         \* native events that arrived so far
    pushed,          \* events pushed on event_queue so far
    popped,          \* events removed from event_queue so far
    frame0,          \* event_queue when the current next_frame call began
    polled,          \* native events polled by the current next_frame call
    prev_frame0,     \* ticks_at_previous_frame before the latest write
    \* ---- parse_image_font
    pixels,
    surf_height,
    string,
    fpc,             \* "idle"; in parse_image_font "start", "scan", "texture"; "done"
    idx,             \* the flat index i of the scan (0-based)
    border_color,
    current_rect,
    chars,
    scanned,         \* pixels the scan has read
    font_result,
    \* ---- print
    text,
    print_x,
    print_y,
    glyphs,          \* Font::chars of the window's font
    font_height,     \* Font::height of the window's font
    ppc,             \* "idle"; in print "start", "loop"; "done"
    text_pos,        \* characters of text the loop has taken
    current_x,
    copies,          \* the canvas.copy calls, as (source, destination)
    print_result

sessionVars == <<running, event_queue, foreground_color, font,
                 target_ticks_per_frame, ticks_at_previous_frame, presented,
                 now, pending, pc, current_ticks, ret, panicked, arrived,
                 pushed, popped, frame0, polled, prev_frame0>>

fontVars == <<pixels, surf_height, string, fpc, idx, border_color,
              current_rect, chars, scanned, font_result>>

printVars == <<text, print_x, print_y, glyphs, font_height, ppc, text_pos,
               current_x, copies, print_result>>

vars == <<sessionVars, fontVars, printVars>>

None == "None"
\* Option<Rect>: no element, or one
NoRect == <<>>
SomeRect(rect) == <<rect>>
Unit == "unit"

(***************************************************************************)
(* Event::from_sdl2_event: Some(event) for a recognized native event,      *)
(* None for any other.                                                     *)
(***************************************************************************)
from_sdl2_event(sdl_event) ==
    CASE sdl_event = "SdlQuit" -> "Quit"
      [] sdl_event = "SdlKeyDown" -> "KeyDown"
      [] sdl_event = "SdlMouseMotion" -> "MouseMove"
      [] OTHER -> None

\* a Window::new that loaded no default font
SessionInit_no_font ==
    /\ running = TRUE
    /\ event_queue = <<>>
    /\ foreground_color = White
    /\ font = None
    /\ target_ticks_per_frame = MillisPerSecond \div FramesPerSecond
    /\ ticks_at_previous_frame = 0
    /\ presented = 1
    /\ now = 0
    /\ pending = <<>>
    /\ pc = "idle"
    /\ current_ticks = 0
    /\ ret = [op |-> "new", val |-> Unit]
    /\ panicked = FALSE
    /\ arrived = 0
    /\ pushed = 0
    /\ popped = 0
    /\ frame0 = <<>>
    /\ polled = <<>>
    /\ prev_frame0 = 0

(***************************************************************************)
(* Window::new: the state after construction.                              *)
(***************************************************************************)
SessionInit ==
    /\ running = TRUE
    /\ event_queue = <<>>
    /\ foreground_color = White
    /\ font = "default"
    /\ target_ticks_per_frame = MillisPerSecond \div FramesPerSecond
    /\ ticks_at_previous_frame = 0
    /\ presented = 1
    /\ now = 0
    /\ pending = <<>>
    /\ pc = "idle"
    /\ current_ticks = 0
    /\ ret = [op |-> "new", val |-> Unit]
    /\ panicked = FALSE
    /\ arrived = 0
    /\ pushed = 0
    /\ popped = 0
    /\ frame0 = <<>>
    /\ polled = <<>>
    /\ prev_frame0 = 0

FontIdle ==
    /\ pixels = <<>>
    /\ surf_height = 0
    /\ string = <<>>
    /\ fpc = "idle"
    /\ idx = 0
    /\ border_color = None
    /\ current_rect = NoRect
    /\ chars = <<>>
    /\ scanned = 0
    /\ font_result = [kind |-> "none"]

PrintIdle ==
    /\ text = <<>>
    /\ print_x = 0
    /\ print_y = 0
    /\ glyphs = <<>>
    /\ font_height = 0
    /\ ppc = "idle"
    /\ text_pos = 0
    /\ current_x = 0
    /\ copies = <<>>
    /\ print_result = [kind |-> "none"]

Init == SessionInit /\ FontIdle /\ PrintIdle

\* the caller may call a method: it is not inside next_frame, and alive
Callable == pc = "idle" /\ ~panicked

(***************************************************************************)
(* Window::quit                                                            *)
(***************************************************************************)
quit_running == FALSE

\* a quit that also emptied the event queue
Quit_clears_queue ==
    /\ Callable
    /\ running' = quit_running
    /\ event_queue' = <<>>
    /\ UNCHANGED <<foreground_color, font, target_ticks_per_frame,
                   ticks_at_previous_frame, presented, now, pending, pc,
                   current_ticks, ret, panicked, arrived, pushed, popped,
                   frame0, polled, prev_frame0>>
    /\ UNCHANGED fontVars
    /\ UNCHANGED printVars

Quit ==
    /\ Callable
    /\ running' = quit_running
    /\ UNCHANGED <<event_queue, foreground_color, font, target_ticks_per_frame,
                   ticks_at_previous_frame, presented, now, pending, pc,
                   current_ticks, ret, panicked, arrived, pushed, popped,
                   frame0, polled, prev_frame0>>
    /\ UNCHANGED fontVars
    /\ UNCHANGED printVars

\* a next_frame without its early return
is_stopped_never(is_running) == FALSE

\* line 110: the condition of the early return of next_frame
is_stopped(is_running) == ~is_running

(***************************************************************************)
(* Window::next_frame, lines 110-112: the session is stopped.              *)
(***************************************************************************)
NextFrameStopped ==
    /\ Callable
    /\ is_stopped(running)
    /\ ret' = [op |-> "next_frame", val |-> FALSE]
    /\ UNCHANGED <<running, event_queue, foreground_color, font,
                   target_ticks_per_frame, ticks_at_previous_frame, presented,
                   now, pending, pc, current_ticks, panicked, arrived, pushed,
                   popped, frame0, polled, prev_frame0>>
    /\ UNCHANGED fontVars
    /\ UNCHANGED printVars

(***************************************************************************)
(* timer_subsystem.ticks(): a monotonic counter.  A read returns any value *)
(* not below `least`, the value the timer had reached before.              *)
(***************************************************************************)
ticks(least) == least .. MaxTicks

(***************************************************************************)
(* Window::next_frame, lines 114-116: present, read the timer.  The call   *)
(* is followed while its pacing wait can end within MaxTicks.              *)
(***************************************************************************)
NextFrameBegin ==
    /\ Callable
    /\ ~is_stopped(running)
    /\ ticks_at_previous_frame + target_ticks_per_frame + DelayMs <= MaxTicks
    /\ presented' = presented + 1
    /\ \E t \in ticks(now) : now' = t /\ current_ticks' = t
    /\ pc' = "wait"
    /\ ret' = [op |-> "next_frame begun", val |-> Unit]
    /\ frame0' = event_queue
    /\ polled' = <<>>
    /\ UNCHANGED <<running, event_queue, foreground_color, font,
                   target_ticks_per_frame, ticks_at_previous_frame, pending,
                   panicked, arrived, pushed, popped, prev_frame0>>
    /\ UNCHANGED fontVars
    /\ UNCHANGED printVars

\* a pacing loop that compared the tick value itself with the target
MustWait_absolute(current, previous, target) == current < target

\* a pacing loop that subtracted the current tick value from the previous
MustWait_reversed(current, previous, target) == previous - current < target

\* line 117: the condition of the pacing loop
MustWait(current, previous, target) == current - previous < target

(***************************************************************************)
(* lines 117-120: one turn of the pacing loop, delay(3) then ticks().      *)
(***************************************************************************)
PaceWait ==
    /\ pc = "wait"
    /\ MustWait(current_ticks, ticks_at_previous_frame, target_ticks_per_frame)
    /\ \E t \in ticks(now + DelayMs) : now' = t /\ current_ticks' = t
    /\ UNCHANGED <<running, event_queue, foreground_color, font,
                   target_ticks_per_frame, ticks_at_previous_frame, presented,
                   pending, pc, ret, panicked, arrived, pushed, popped, frame0,
                   polled, prev_frame0>>
    /\ UNCHANGED fontVars
    /\ UNCHANGED printVars

\* a next_frame that left the pacing loop without recording the tick value
PaceDone_no_record ==
    /\ pc = "wait"
    /\ ~MustWait(current_ticks, ticks_at_previous_frame, target_ticks_per_frame)
    /\ prev_frame0' = ticks_at_previous_frame
    /\ pc' = "drain"
    /\ UNCHANGED <<running, event_queue, foreground_color, font,
                   target_ticks_per_frame, ticks_at_previous_frame, presented,
                   now, pending, current_ticks, ret, panicked, arrived, pushed,
                   popped, frame0, polled>>
    /\ UNCHANGED fontVars
    /\ UNCHANGED printVars

(***************************************************************************)
(* line 121: the pacing loop has ended; record the tick value.             *)
(***************************************************************************)
PaceDone ==
    /\ pc = "wait"
    /\ ~MustWait(current_ticks, ticks_at_previous_frame, target_ticks_per_frame)
    /\ ticks_at_previous_frame' = current_ticks
    /\ prev_frame0' = ticks_at_previous_frame
    /\ pc' = "drain"
    /\ UNCHANGED <<running, event_queue, foreground_color, font,
                   target_ticks_per_frame, presented, now, pending,
                   current_ticks, ret, panicked, arrived, pushed, popped,
                   frame0, polled>>
    /\ UNCHANGED fontVars
    /\ UNCHANGED printVars

\* a match whose Quit arm takes every recognized event
drain_arm_any_quits(e) == IF e = None THEN "drop" ELSE "quit"

\* a match whose push arm comes before the Quit arm
drain_arm_pushes_quit(e) == IF e = None THEN "drop" ELSE "push"

\* lines 128-134: the arm of the match that takes a normalized event
drain_arm(e) ==
    CASE e = "Quit" -> "quit"
      [] e = None -> "drop"
      [] OTHER -> "push"

(***************************************************************************)
(* lines 124-136: poll_event returned Some(sdl_event).                     *)
(***************************************************************************)
DrainEvent ==
    /\ pc = "drain"
    /\ pending # <<>>
    /\ LET sdl_event == Head(pending)
           e == from_sdl2_event(sdl_event)
       IN  /\ pending' = Tail(pending)
           /\ polled' = Append(polled, sdl_event)
           /\ CASE drain_arm(e) = "quit" ->
                     /\ running' = quit_running
                     /\ UNCHANGED <<event_queue, pushed>>
                [] drain_arm(e) = "drop" ->
                     UNCHANGED <<running, event_queue, pushed>>
                [] OTHER ->
                     /\ event_queue' =
                            Append(event_queue, [kind |-> e, seq |-> pushed + 1])
                     /\ pushed' = pushed + 1
                     /\ UNCHANGED running
    /\ UNCHANGED <<foreground_color, font, target_ticks_per_frame,
                   ticks_at_previous_frame, presented, now, pc, current_ticks,
                   ret, panicked, arrived, popped, frame0, prev_frame0>>
    /\ UNCHANGED fontVars
    /\ UNCHANGED printVars

\* a next_frame that returned the running flag
next_frame_result_running(is_running) == is_running

\* line 138: what next_frame returns after draining
next_frame_result(is_running) == TRUE

(***************************************************************************)
(* lines 127, 138: poll_event returned None; return.                       *)
(***************************************************************************)
NextFrameReturn ==
    /\ pc = "drain"
    /\ pending = <<>>
    /\ pc' = "idle"
    /\ ret' = [op |-> "next_frame", val |-> next_frame_result(running)]
    /\ UNCHANGED <<running, event_queue, foreground_color, font,
                   target_ticks_per_frame, ticks_at_previous_frame, presented,
                   now, pending, current_ticks, panicked, arrived, pushed,
                   popped, frame0, polled, prev_frame0>>
    /\ UNCHANGED fontVars
    /\ UNCHANGED printVars

(***************************************************************************)
(* Window::has_event                                                       *)
(***************************************************************************)
\* a has_event without the negation
has_event_is_empty(queue) == queue = <<>>

has_event(queue) == queue # <<>>

HasEvent ==
    /\ Callable
    /\ ret' = [op |-> "has_event", val |-> has_event(event_queue)]
    /\ UNCHANGED <<running, event_queue, foreground_color, font,
                   target_ticks_per_frame, ticks_at_previous_frame, presented,
                   now, pending, pc, current_ticks, panicked, arrived, pushed,
                   popped, frame0, polled, prev_frame0>>
    /\ UNCHANGED fontVars
    /\ UNCHANGED printVars

(***************************************************************************)
(* Window::next_event: Vec::remove(0), which panics on an empty vector.    *)
(***************************************************************************)
\* a next_event that took the newest event, as Vec::pop does
removed_index_last(queue) == Len(queue)

\* line 154: the position remove(0) takes, counted from 1
removed_index(queue) == 1

NextEvent ==
    /\ Callable
    /\ IF Len(event_queue) = 0
       THEN /\ panicked' = TRUE
            /\ ret' = [op |-> "next_event panicked", val |-> Unit]
            /\ UNCHANGED <<event_queue, popped>>
       ELSE LET k == removed_index(event_queue)
            IN  /\ ret' = [op |-> "next_event", val |-> event_queue[k]]
                /\ event_queue' =
                       SubSeq(event_queue, 1, k - 1)
                           \o SubSeq(event_queue, k + 1, Len(event_queue))
                /\ popped' = popped + 1
                /\ UNCHANGED panicked
    /\ UNCHANGED <<running, foreground_color, font, target_ticks_per_frame,
                   ticks_at_previous_frame, presented, now, pending, pc,
                   current_ticks, arrived, pushed, frame0, polled, prev_frame0>>
    /\ UNCHANGED fontVars
    /\ UNCHANGED printVars

(***************************************************************************)
(* Window::set_font                                                        *)
(***************************************************************************)
SetFont ==
    /\ Callable
    /\ \E f \in Fonts : font' = f
    /\ UNCHANGED <<running, event_queue, foreground_color,
                   target_ticks_per_frame, ticks_at_previous_frame, presented,
                   now, pending, pc, current_ticks, ret, panicked, arrived, pushed,
                   popped, frame0, polled, prev_frame0>>
    /\ UNCHANGED fontVars
    /\ UNCHANGED printVars

(***************************************************************************)
(* Window::set_color                                                       *)
(***************************************************************************)
SetColor ==
    /\ Callable
    /\ \E c \in Colors : foreground_color' = c
    /\ UNCHANGED <<running, event_queue, font, target_ticks_per_frame,
                   ticks_at_previous_frame, presented, now, pending, pc,
                   current_ticks, ret, panicked, arrived, pushed, popped, frame0,
                   polled, prev_frame0>>
    /\ UNCHANGED fontVars
    /\ UNCHANGED printVars

(***************************************************************************)
(* draw_rect, fill_rect, draw_point, draw_polygon, draw_image, clear,      *)
(* clear_to_color: they write to the canvas only.                          *)
(***************************************************************************)
Draw ==
    /\ Callable
    /\ UNCHANGED <<running, event_queue, foreground_color, font,
                   target_ticks_per_frame, ticks_at_previous_frame, presented,
                   now, pending, pc, current_ticks, ret, panicked, arrived, pushed,
                   popped, frame0, polled, prev_frame0>>
    /\ UNCHANGED fontVars
    /\ UNCHANGED printVars

(***************************************************************************)
(* Window::print, as one step of the session: it panics at line 263        *)
(* without a font, and else writes to the canvas and returns a rectangle   *)
(* (PrintSpec below has the loop).                                         *)
(***************************************************************************)
PrintText ==
    /\ Callable
    /\ IF font = None
       THEN /\ panicked' = TRUE
            /\ ret' = [op |-> "print panicked", val |-> Unit]
       ELSE /\ ret' = [op |-> "print", val |-> "Rect"]
            /\ UNCHANGED panicked
    /\ UNCHANGED <<running, event_queue, foreground_color, font,
                   target_ticks_per_frame, ticks_at_previous_frame, presented,
                   now, pending, pc, current_ticks, arrived, pushed, popped,
                   frame0, polled, prev_frame0>>
    /\ UNCHANGED fontVars
    /\ UNCHANGED printVars

(***************************************************************************)
(* The environment: a native event arrives in the event pump.              *)
(***************************************************************************)
Arrive ==
    /\ arrived < MaxEvents
    /\ \E sdl_event \in NativeEvents : pending' = Append(pending, sdl_event)
    /\ arrived' = arrived + 1
    /\ UNCHANGED <<running, event_queue, foreground_color, font,
                   target_ticks_per_frame, ticks_at_previous_frame, presented,
                   now, pc, current_ticks, ret, panicked, pushed, popped,
                   frame0, polled, prev_frame0>>
    /\ UNCHANGED fontVars
    /\ UNCHANGED printVars

Next ==
    \/ Quit
    \/ NextFrameStopped
    \/ NextFrameBegin
    \/ PaceWait
    \/ PaceDone
    \/ DrainEvent
    \/ NextFrameReturn
    \/ HasEvent
    \/ NextEvent
    \/ SetFont
    \/ SetColor
    \/ Draw
    \/ PrintText
    \/ Arrive

Spec == Init /\ [][Next]_vars

(***************************************************************************)
(* The session with a thread that keeps running: next_frame is sequential  *)
(* code, so a call that has begun takes its next step, whichever of the    *)
(* pacing loop, the drain loop and the return that is.  The timer keeps    *)
(* advancing (delay(3) returns, PaceWait) and the native source gives      *)
(* finitely many events (Arrive is bounded).  Nothing obliges the caller   *)
(* to call a method.                                                       *)
(***************************************************************************)
LiveSpec ==
    /\ Init
    /\ [][Next]_vars
    /\ WF_vars(PaceWait)
    /\ WF_vars(PaceDone)
    /\ WF_vars(DrainEvent)
    /\ WF_vars(NextFrameReturn)


(***************************************************************************)
(* parse_image_font                                                        *)
(***************************************************************************)

\* util::string_has_duplicate_chars
string_has_duplicate_chars(s) ==
    Cardinality({s[n] : n \in 1..Len(s)}) < Len(s)

\* sdl2's Rect::new behind shape::Rect::new: a width or height of 0 becomes 1
clamp_size(val) == IF val = 0 THEN 1 ELSE val

Rect_new(x, y, width, height) ==
    [x |-> x, y |-> y, width |-> clamp_size(width), height |-> clamp_size(height)]

\* an nth that counted the characters from 1
chars_nth_from_one(s, n) == IF n + 1 < Len(s) THEN s[n + 2] ELSE None

\* an nth that started over at the end of the alphabet
chars_nth_wraps(s, n) == IF Len(s) = 0 THEN None ELSE s[(n % Len(s)) + 1]

\* line 436: string.chars().nth(n), n counted from 0
chars_nth(s, n) == IF n < Len(s) THEN s[n + 1] ELSE None

\* line 436: chars.len()
chars_len(map) == Cardinality(DOMAIN map)

\* line 450: chars.insert(c, rect)
chars_insert(map, c, rect) ==
    [k \in (DOMAIN map) \cup {c} |-> IF k = c THEN rect ELSE map[k]]

\* a closure that counted the border pixel into the width
closed_rect_inclusive(rect, i) ==
    Rect_new(rect.x, rect.y, i - rect.x + 1, rect.height)

\* lines 444-449: the rectangle that is closed at flat index i
closed_rect(rect, i) == Rect_new(rect.x, rect.y, i - rect.x, rect.height)

\* an opened rectangle one pixel high, as it is one pixel wide
opened_rect_unit_height(i, height) == Rect_new(i, 0, 1, 1)

\* line 454: the rectangle that is opened at flat index i
opened_rect(i, height) == Rect_new(i, 0, 1, height)

\* line 434: the pixel is a border pixel
is_border(pixel, border) == pixel = border

Strings == UNION {[1..n -> Chars] : n \in 0..MaxAlphabet}

Buffers == UNION {[1..n -> PixelValues] : n \in 0..MaxPixels}

\* the heights of a surface whose buffer has n bytes, one byte to a pixel:
\* n = width * height
Heights(n) == IF n = 0 THEN {0, 1} ELSE {h \in 1..n : n % h = 0}

FontInit ==
    /\ SessionInit
    /\ pixels \in Buffers
    /\ surf_height \in Heights(Len(pixels))
    /\ string \in Strings
    /\ fpc = "start"
    /\ idx = 0
    /\ border_color = None
    /\ current_rect = NoRect
    /\ chars = <<>>
    /\ scanned = 0
    /\ font_result = [kind |-> "none"]
    /\ PrintIdle

\* a parse_image_font without its check of the alphabet
rejects_never(s) == FALSE

\* line 415: the condition of the early return of parse_image_font
rejects(s) == string_has_duplicate_chars(s)

(***************************************************************************)
(* lines 415-417: an alphabet with a repeated character is refused.        *)
(***************************************************************************)
ParseDuplicate ==
    /\ fpc = "start"
    /\ rejects(string)
    /\ font_result' = [kind |-> "Err",
                        err |-> "image font string has duplicate characters"]
    /\ fpc' = "done"
    /\ UNCHANGED <<pixels, surf_height, string, idx, border_color,
                   current_rect, chars, scanned>>
    /\ UNCHANGED sessionVars
    /\ UNCHANGED printVars

(***************************************************************************)
(* lines 419-428: lock the surface and read the border colour, pixels[0];  *)
(* indexing an empty slice panics.                                         *)
(***************************************************************************)
ParseLock ==
    /\ fpc = "start"
    /\ ~rejects(string)
    /\ IF Len(pixels) = 0
       THEN /\ font_result' = [kind |-> "panic"]
            /\ fpc' = "done"
            /\ UNCHANGED border_color
       ELSE /\ border_color' = pixels[1]
            /\ fpc' = "scan"
            /\ UNCHANGED font_result
    /\ UNCHANGED <<pixels, surf_height, string, idx, current_rect, chars,
                   scanned>>
    /\ UNCHANGED sessionVars
    /\ UNCHANGED printVars

(***************************************************************************)
(* lines 432-456: one turn of the loop over the flat buffer, at index idx. *)
(***************************************************************************)
ScanPixel ==
    /\ fpc = "scan"
    /\ idx < Len(pixels)
    /\ scanned' = scanned + 1
    /\ LET pixel == pixels[idx + 1]
       IN  IF is_border(pixel, border_color)
           THEN IF current_rect # NoRect
                THEN LET c == chars_nth(string, chars_len(chars))
                     IN  IF c = None
                         THEN \* line 441: return from the closure
                              /\ fpc' = "texture"
                              /\ UNCHANGED <<idx, current_rect, chars>>
                         ELSE /\ chars' = chars_insert(chars, c,
                                              closed_rect(current_rect[1], idx))
                              /\ current_rect' = NoRect
                              /\ idx' = idx + 1
                              /\ UNCHANGED fpc
                ELSE /\ idx' = idx + 1
                     /\ UNCHANGED <<fpc, current_rect, chars>>
           ELSE IF current_rect = NoRect
                THEN /\ current_rect' = SomeRect(opened_rect(idx, surf_height))
                     /\ idx' = idx + 1
                     /\ UNCHANGED <<fpc, chars>>
                ELSE /\ idx' = idx + 1
                     /\ UNCHANGED <<fpc, current_rect, chars>>
    /\ UNCHANGED <<pixels, surf_height, string, border_color, font_result>>
    /\ UNCHANGED sessionVars
    /\ UNCHANGED printVars

(***************************************************************************)
(* A loop end that closed the rectangle still open at the end of the       *)
(* buffer.                                                                 *)
(***************************************************************************)
ScanEnd_closes ==
    /\ fpc = "scan"
    /\ idx = Len(pixels)
    /\ fpc' = "texture"
    /\ IF current_rect # NoRect /\ chars_len(chars) < Len(string)
       THEN /\ chars' = chars_insert(chars, chars_nth(string, chars_len(chars)),
                                     closed_rect(current_rect[1], idx))
            /\ current_rect' = NoRect
       ELSE UNCHANGED <<current_rect, chars>>
    /\ UNCHANGED <<pixels, surf_height, string, idx, border_color, scanned,
                   font_result>>
    /\ UNCHANGED sessionVars
    /\ UNCHANGED printVars

(***************************************************************************)
(* line 456: the loop has visited every pixel.                             *)
(***************************************************************************)
ScanEnd ==
    /\ fpc = "scan"
    /\ idx = Len(pixels)
    /\ fpc' = "texture"
    /\ UNCHANGED <<pixels, surf_height, string, idx, border_color,
                   current_rect, chars, scanned, font_result>>
    /\ UNCHANGED sessionVars
    /\ UNCHANGED printVars

(***************************************************************************)
(* lines 459-472: create_texture_from_surface succeeds, Ok(Font).          *)
(***************************************************************************)
TextureOk ==
    /\ fpc = "texture"
    /\ font_result' = [kind |-> "Ok", height |-> surf_height, chars |-> chars]
    /\ fpc' = "done"
    /\ UNCHANGED <<pixels, surf_height, string, idx, border_color,
                   current_rect, chars, scanned>>
    /\ UNCHANGED sessionVars
    /\ UNCHANGED printVars

(***************************************************************************)
(* lines 459-466: create_texture_from_surface fails, Err.                  *)
(***************************************************************************)
TextureErr ==
    /\ fpc = "texture"
    /\ font_result' = [kind |-> "Err", err |-> "texture"]
    /\ fpc' = "done"
    /\ UNCHANGED <<pixels, surf_height, string, idx, border_color,
                   current_rect, chars, scanned>>
    /\ UNCHANGED sessionVars
    /\ UNCHANGED printVars

FontNext ==
    \/ ParseDuplicate
    \/ ParseLock
    \/ ScanPixel
    \/ ScanEnd
    \/ TextureOk
    \/ TextureErr

FontSpec == FontInit /\ [][FontNext]_vars

(***************************************************************************)
(* Window::print                                                           *)
(***************************************************************************)

\* the texts, their positions, and the fonts print is applied to
Texts == UNION {[1..n -> Chars] : n \in 0..MaxText}

PrintXs == {0, 10}

PrintYs == {0, 3}

GlyphWidths == {1, 5, 7}

FontHeights == {1, 2}

\* where a character's glyph lies in the font's texture
GlyphX(c) == CASE c = "a" -> 1 [] c = "b" -> 9 [] OTHER -> 17

\* the maps Font::chars of fonts of the given height: some characters, each
\* with a rectangle of the texture
GlyphMaps(height) ==
    UNION {{[c \in D |-> Rect_new(GlyphX(c), 0, w[c], height)] :
                w \in [D -> GlyphWidths]} : D \in SUBSET Chars}

\* Font::get_rect
get_rect(map, ch) == IF ch \in DOMAIN map THEN SomeRect(map[ch]) ELSE NoRect

PrintInit ==
    /\ SessionInit
    /\ FontIdle
    /\ text \in Texts
    /\ print_x \in PrintXs
    /\ print_y \in PrintYs
    /\ font_height \in FontHeights
    /\ glyphs \in GlyphMaps(font_height)
    /\ ppc = "start"
    /\ text_pos = 0
    /\ current_x = 0
    /\ copies = <<>>
    /\ print_result = [kind |-> "none"]

(***************************************************************************)
(* lines 257-267: take the window's font, or panic without one; start the  *)
(* cursor at x.                                                            *)
(***************************************************************************)
PrintBegin ==
    /\ ppc = "start"
    /\ IF font = None
       THEN /\ print_result' = [kind |-> "panic"]
            /\ ppc' = "done"
            /\ UNCHANGED current_x
       ELSE /\ current_x' = print_x
            /\ ppc' = "loop"
            /\ UNCHANGED print_result
    /\ UNCHANGED <<text, print_x, print_y, glyphs, font_height, text_pos,
                   copies>>
    /\ UNCHANGED sessionVars
    /\ UNCHANGED fontVars

\* a print that left the cursor in place for a character without a glyph
skipped_x_stays(x) == x

\* line 273: the cursor after a character without a glyph
skipped_x(x) == x + MissingGlyphGap

\* line 284: the cursor after a character drawn with font_rect
drawn_x(x, font_rect) == x + font_rect.width

(***************************************************************************)
(* lines 269-285: one turn of the loop over the characters of text.        *)
(***************************************************************************)
PrintChar ==
    /\ ppc = "loop"
    /\ text_pos < Len(text)
    /\ text_pos' = text_pos + 1
    /\ LET ch == text[text_pos + 1]
           found == get_rect(glyphs, ch)
       IN  IF found = NoRect
           THEN /\ current_x' = skipped_x(current_x)
                /\ UNCHANGED copies
           ELSE LET font_rect == found[1]
                    rect == Rect_new(current_x, print_y, font_rect.width,
                                     font_rect.height)
                IN  /\ copies' = Append(copies, <<font_rect, rect>>)
                    /\ current_x' = drawn_x(current_x, font_rect)
    /\ UNCHANGED <<text, print_x, print_y, glyphs, font_height, ppc,
                   print_result>>
    /\ UNCHANGED sessionVars
    /\ UNCHANGED fontVars

(***************************************************************************)
(* line 287: the rectangle print returns.                                  *)
(***************************************************************************)
PrintReturn ==
    /\ ppc = "loop"
    /\ text_pos = Len(text)
    /\ print_result' =
           [kind |-> "Rect",
            rect |-> Rect_new(print_x, print_y, current_x - print_x,
                              font_height)]
    /\ ppc' = "done"
    /\ UNCHANGED <<text, print_x, print_y, glyphs, font_height, text_pos,
                   current_x, copies>>
    /\ UNCHANGED sessionVars
    /\ UNCHANGED fontVars

PrintNext ==
    \/ PrintBegin
    \/ PrintChar
    \/ PrintReturn

PrintSpec == PrintInit /\ [][PrintNext]_vars


(***************************************************************************)
(* Properties of the session (Spec).                                       *)
(***************************************************************************)

\* the step on which a next_frame call made in state Running returns
ReturnsFromFrame == pc = "drain" /\ pc' = "idle"

\* the step that is (or begins) a next_frame call made while stopped
FrameCallWhenStopped ==
    /\ pc = "idle"
    /\ ~panicked
    /\ ~running
    /\ ret' # ret
    /\ ret'.op \in {"next_frame", "next_frame begun"}

\* a Quit was normalized among the native events the call polled
QuitPolled(events) ==
    \E n \in 1..Len(events) : from_sdl2_event(events[n]) = "Quit"

\* C1 as stated: a next_frame call made in state Running that normalized a
\* Quit while draining returns false, and it returns true only if the
\* session is still running after draining.
C1_QuitFrameReturnsFalse ==
    [][ReturnsFromFrame =>
          /\ ret'.op = "next_frame"
          /\ QuitPolled(polled) => ret'.val = FALSE
          /\ ret'.val = TRUE => running']_vars

\* C1 amended: a next_frame call made in state Running returns true whether
\* or not a Quit was normalized while draining; the Quit has stopped the
\* session when the call returns (running is false exactly when a Quit was
\* polled), and a next_frame call made after that returns false.
C1_QuitFrameReturnsTrue ==
    [][/\ ReturnsFromFrame =>
            /\ ret'.op = "next_frame"
            /\ ret'.val = TRUE
            /\ QuitPolled(polled) <=> ~running'
       /\ FrameCallWhenStopped =>
            /\ ret'.op = "next_frame"
            /\ ret'.val = FALSE]_vars

\* C1's case: the call that drained a Quit has returned true, session stopped
C1_Witness ==
    /\ pc = "idle"
    /\ ret.op = "next_frame"
    /\ ret.val = TRUE
    /\ QuitPolled(polled)
    /\ ~running

\* C2: once the session is stopped, a next_frame call returns false and
\* changes nothing: no frame is presented, the timer is not read and
\* ticks_at_previous_frame keeps its value, no native event is polled, and
\* the event queue, the foreground colour and the font are unchanged.
C2_StoppedFrameNoEffect ==
    [][FrameCallWhenStopped =>
          /\ ret'.op = "next_frame"
          /\ ret'.val = FALSE
          /\ pc' = "idle"
          /\ UNCHANGED <<running, presented, now, current_ticks,
                         ticks_at_previous_frame, target_ticks_per_frame,
                         pending, polled, event_queue, pushed, popped,
                         foreground_color, font, panicked>>]_vars

\* C2's case: a stopped session, native events pending, next_frame returned
\* false
C2_Witness ==
    /\ ~running
    /\ pending # <<>>
    /\ event_queue # <<>>
    /\ ret.op = "next_frame"
    /\ ret.val = FALSE

\* the step of a quit() call: only the running flag changes
QuitCallStep ==
    /\ pc = "idle"
    /\ UNCHANGED <<event_queue, foreground_color, font, target_ticks_per_frame,
                   ticks_at_previous_frame, presented, now, pending, pc,
                   current_ticks, ret, panicked, arrived, pushed, popped,
                   frame0, polled, prev_frame0>>

\* the step of the drain loop that normalizes a Quit
QuitDrainStep ==
    /\ pc = "drain"
    /\ pending # <<>>
    /\ from_sdl2_event(Head(pending)) = "Quit"
    /\ pending' = Tail(pending)

\* C3: running starts true, never changes from false to true (so it changes
\* at most once), and changes to false only on the drain step that
\* normalizes a Quit or on a quit() call.
C3_RunningOnce ==
    /\ running = TRUE
    /\ [][/\ running' => running
          /\ (running /\ ~running') => (QuitCallStep \/ QuitDrainStep)]_vars

\* C3's case: a drained Quit has stopped the session and operations went on
C3_Witness ==
    /\ ~running
    /\ QuitPolled(polled)
    /\ ret.op = "next_event"

\* C4: next_event returns the events in the order they were pushed, each
\* once: the events in the queue are the pushed events number popped + 1 to
\* pushed, oldest first, and the event next_event returned last is the
\* event number popped, whatever calls of next_frame and next_event came
\* before.
C4_Fifo ==
    /\ pushed = popped + Len(event_queue)
    /\ \A n \in 1..Len(event_queue) : event_queue[n].seq = popped + n
    /\ ret.op = "next_event" => ret.val.seq = popped

\* C4's case: after two completed next_frame calls, next_event has returned
\* two events
C4_Witness ==
    /\ ret.op = "next_event"
    /\ popped = 2
    /\ prev_frame0 > 0

\* the kinds of event the queue may hold: recognized, and not Quit
QueuedKinds == {from_sdl2_event(e) : e \in NativeEvents} \ {"Quit", None}

IsQueuedKind(kind) == kind \in QueuedKinds

\* the normalized events of a sequence of native events, without the Quit
\* and unrecognized ones
Queued(events) ==
    SelectSeq([n \in 1..Len(events) |-> from_sdl2_event(events[n])],
              IsQueuedKind)

Kinds(queue) == [n \in 1..Len(queue) |-> queue[n].kind]

\* C5: the event queue never holds a Quit or an unrecognized event, and
\* when a next_frame call made in state Running returns, the queue is the
\* queue at the start of the call followed by the recognized non-Quit
\* events the native source held, in arrival order, and the native source
\* is empty.
C5_DrainAppends ==
    /\ [](\A n \in 1..Len(event_queue) : event_queue[n].kind \in QueuedKinds)
    /\ [][ReturnsFromFrame =>
            /\ pending' = <<>>
            /\ Len(event_queue') = Len(frame0) + Len(Queued(polled))
            /\ SubSeq(event_queue', 1, Len(frame0)) = frame0
            /\ Kinds(SubSeq(event_queue', Len(frame0) + 1, Len(event_queue')))
                   = Queued(polled)]_vars

\* C5's case: a call polled an unrecognized event and a recognized one, and
\* has returned with the recognized one queued
C5_Witness ==
    /\ pc = "idle"
    /\ ret.op = "next_frame"
    /\ \E n \in 1..Len(polled) : from_sdl2_event(polled[n]) = None
    /\ Len(Queued(polled)) = 1
    /\ Len(event_queue) = 1

\* the step that is a next_event call on an empty queue
NextEventOnEmpty ==
    /\ pc = "idle"
    /\ ~panicked
    /\ event_queue = <<>>
    /\ ret' # ret
    /\ ret'.op \in {"next_event", "next_event panicked"}

\* C6: has_event returns true exactly when the event queue is not empty,
\* and next_event on an empty queue panics: it returns no event, and after
\* the panic no operation of the session runs.
C6_EmptyQueuePanics ==
    /\ [](ret.op = "has_event" => (ret.val <=> event_queue # <<>>))
    /\ [](panicked <=> ret.op = "next_event panicked")
    /\ [][NextEventOnEmpty =>
            /\ panicked'
            /\ ret'.op = "next_event panicked"
            /\ UNCHANGED <<event_queue, popped>>]_vars
    /\ [][panicked =>
            UNCHANGED <<running, event_queue, foreground_color, font,
                        target_ticks_per_frame, ticks_at_previous_frame,
                        presented, now, pc, current_ticks, ret, panicked,
                        pushed, popped>>]_vars

\* C6's case: next_event was called on the queue that two next_event calls
\* had emptied, and panicked
C6_Witness ==
    /\ panicked
    /\ popped = 2
    /\ event_queue = <<>>

\* C7: the tick value a next_frame call records is at least
\* target_ticks_per_frame above the value recorded before it (the initial 0
\* for the first call), and the pacing wait ends only when
\* current_ticks - ticks_at_previous_frame >= target_ticks_per_frame; the
\* value recorded is the one that ended the wait.
C7_PacingLowerBound ==
    [][/\ ticks_at_previous_frame' # ticks_at_previous_frame =>
            /\ pc = "wait"
            /\ ticks_at_previous_frame' - ticks_at_previous_frame
                   >= target_ticks_per_frame
       /\ (pc = "wait" /\ pc' # "wait") =>
            /\ current_ticks - ticks_at_previous_frame >= target_ticks_per_frame
            /\ ticks_at_previous_frame' = current_ticks
            /\ prev_frame0' = ticks_at_previous_frame]_vars

\* C7's case: two next_frame calls have completed, the second recorded
\* exactly target_ticks_per_frame more than the first
C7_Witness ==
    /\ pc = "idle"
    /\ prev_frame0 > 0
    /\ ticks_at_previous_frame - prev_frame0 = target_ticks_per_frame

(***************************************************************************)
(* Properties of parse_image_font (FontSpec).  The bands of a buffer are   *)
(* defined from the buffer, apart from the scan: positions count from 1.   *)
(***************************************************************************)

\* a band starts at position p: a non-border pixel after a border pixel
IsBandStart(buffer, p) ==
    /\ p \in 2..Len(buffer)
    /\ buffer[p] # buffer[1]
    /\ buffer[p - 1] = buffer[1]

\* the positions of the border pixels after position p
BordersAfter(buffer, p) == {q \in (p + 1)..Len(buffer) : buffer[q] = buffer[1]}

\* the position of the border pixel that closes the band starting at p
BandClose(buffer, p) ==
    CHOOSE q \in BordersAfter(buffer, p) :
        \A r \in BordersAfter(buffer, p) : q <= r

\* the starts of the closed bands: a border pixel follows
ClosedBands(buffer) ==
    {p \in 1..Len(buffer) :
        IsBandStart(buffer, p) /\ BordersAfter(buffer, p) # {}}

\* the start of the k-th closed band
BandStart(buffer, k) ==
    CHOOSE p \in ClosedBands(buffer) :
        Cardinality({q \in ClosedBands(buffer) : q < p}) = k - 1

\* the glyph rectangle of the band starting at p, in 0-based flat indices
BandRect(buffer, p, height) ==
    [x |-> p - 1, y |-> 0, width |-> BandClose(buffer, p) - p,
     height |-> height]

\* the first n closed bands bound to the first n characters of alphabet
Bound(buffer, alphabet, height, n) ==
    [c \in {alphabet[k] : k \in 1..n} |->
        LET k == CHOOSE j \in 1..n : alphabet[j] = c
        IN  BandRect(buffer, BandStart(buffer, k), height)]

\* the scan of parse_image_font has ended
Scanned == fpc \in {"texture", "done"} /\ font_result.kind # "panic"

\* parse_image_font returned from the scan, not from the alphabet check:
\* Ok(Font) with the map of the scan, or the error of the texture creator
ReturnsScan ==
    fpc = "done" =>
        \/ font_result = [kind |-> "Ok", height |-> surf_height, chars |-> chars]
        \/ font_result = [kind |-> "Err", err |-> "texture"]

\* C8: for a non-empty buffer with N closed bands and a duplicate-free
\* alphabet of M >= N characters, the scan yields exactly N entries, the
\* k-th closed band bound to the k-th character, and the font returned
\* holds that map.
C8_AlphabetOrder ==
    (/\ Scanned
     /\ ~string_has_duplicate_chars(string)
     /\ Cardinality(ClosedBands(pixels)) <= Len(string))
    => /\ chars_len(chars) = Cardinality(ClosedBands(pixels))
       /\ chars = Bound(pixels, string, surf_height,
                        Cardinality(ClosedBands(pixels)))
       /\ ReturnsScan

\* C8's case: two bands and an alphabet of two characters gave a font of two
\* entries
C8_Witness ==
    /\ fpc = "done"
    /\ font_result.kind = "Ok"
    /\ Cardinality(ClosedBands(pixels)) = 2
    /\ Len(string) = 2
    /\ chars_len(font_result.chars) = 2

\* C9: with more closed bands than characters, the scan yields the first
\* len(alphabet) bands bound in order and nothing else, it stops at the
\* border pixel that closes the band after the last bound one (no later
\* pixel is read), and the call returns the font with that map.
C9_Truncation ==
    (/\ Scanned
     /\ ~string_has_duplicate_chars(string)
     /\ Cardinality(ClosedBands(pixels)) > Len(string))
    => /\ chars_len(chars) = Len(string)
       /\ chars = Bound(pixels, string, surf_height, Len(string))
       /\ idx + 1 = BandClose(pixels, BandStart(pixels, Len(string) + 1))
       /\ scanned = idx + 1
       /\ ReturnsScan

\* C9's case: two bands and an alphabet of one character gave a font of one
\* entry
C9_Witness ==
    /\ fpc = "done"
    /\ font_result.kind = "Ok"
    /\ Cardinality(ClosedBands(pixels)) = 2
    /\ Len(string) = 1
    /\ chars_len(font_result.chars) = 1

\* C10: with a repeated character in the alphabet the call returns the
\* duplicate-character error for every buffer, the empty one included; no
\* pixel is read (the border colour is not read, the scan visits nothing),
\* no font is made, and the session is as it was.
C10_DuplicateRejected ==
    /\ string_has_duplicate_chars(string) =>
          /\ fpc \in {"start", "done"}
          /\ border_color = None
          /\ scanned = 0
          /\ idx = 0
          /\ chars = <<>>
          /\ current_rect = NoRect
          /\ fpc = "done" =>
                font_result =
                    [kind |-> "Err",
                     err |-> "image font string has duplicate characters"]
    /\ SessionInit

\* C10's case: the alphabet "aa" and an empty buffer, refused
C10_Witness ==
    /\ fpc = "done"
    /\ string = <<"a", "a">>
    /\ pixels = <<>>
    /\ font_result.kind = "Err"

\* C11 as stated: for an empty pixel buffer (zero width or zero height) and
\* a duplicate-free alphabet, parse_image_font returns normally, with an
\* empty map; it does not panic.
C11_EmptyBufferEmptyMap ==
    (/\ fpc = "done"
     /\ Len(pixels) = 0
     /\ ~string_has_duplicate_chars(string))
    => /\ font_result.kind # "panic"
       /\ chars = <<>>
       /\ ReturnsScan

\* C12 as stated: with the empty alphabet parse_image_font returns an
\* empty map for every pixel buffer.
C12_EmptyAlphabetEmptyMap ==
    (/\ fpc = "done"
     /\ Len(string) = 0)
    => /\ font_result.kind # "panic"
       /\ chars = <<>>
       /\ ReturnsScan

\* the buffer ends in a run of non-border pixels that no border pixel closes
HasTrailingRegion(buffer) ==
    \E p \in 1..Len(buffer) :
        IsBandStart(buffer, p) /\ BordersAfter(buffer, p) = {}

\* C15: a trailing unterminated region is never assigned a character: every
\* entry of the map is the rectangle of a closed band, and when the scan
\* has ended on a buffer with such a region the map has no more entries
\* than there are closed bands, so the character after the last bound one
\* is unbound.
C15_TrailingRegionDropped ==
    ~string_has_duplicate_chars(string) =>
        /\ \A c \in DOMAIN chars :
              \E p \in ClosedBands(pixels) :
                  chars[c] = BandRect(pixels, p, surf_height)
        /\ (Scanned /\ HasTrailingRegion(pixels)) =>
              /\ chars_len(chars) <= Cardinality(ClosedBands(pixels))
              /\ \A n \in 1..Len(string) :
                    n > Cardinality(ClosedBands(pixels)) =>
                        string[n] \notin DOMAIN chars
              /\ ReturnsScan

\* C15's case: one closed band, then a trailing region, and an alphabet of
\* two characters gave a font of one entry
C15_Witness ==
    /\ fpc = "done"
    /\ font_result.kind = "Ok"
    /\ HasTrailingRegion(pixels)
    /\ Cardinality(ClosedBands(pixels)) = 1
    /\ Len(string) = 2
    /\ DOMAIN font_result.chars = {string[1]}

\* C16: every glyph rectangle has width > 0, x >= 0, y = 0 and the height
\* of the image, the map never has more entries than the alphabet has
\* characters, and in the font returned every rectangle's height is the
\* font's height.
C16_RectangleShape ==
    /\ \A c \in DOMAIN chars :
          /\ chars[c].width > 0
          /\ chars[c].x >= 0
          /\ chars[c].y = 0
          /\ chars[c].height = surf_height
    /\ chars_len(chars) <= Len(string)
    /\ font_result.kind = "Ok" =>
          \A c \in DOMAIN font_result.chars :
              font_result.chars[c].height = font_result.height

\* C16's case: a font with an entry, from an image two pixels high
C16_Witness ==
    /\ fpc = "done"
    /\ font_result.kind = "Ok"
    /\ font_result.height = 2
    /\ chars_len(font_result.chars) >= 1

\* C17: every glyph rectangle is a maximal run of non-border pixels of the
\* flat buffer: the pixels at the flat indices x .. x + width - 1 differ
\* from the border colour, the pixels at x - 1 and at x + width are border
\* pixels, x + width is below the length of the buffer, and the rectangles
\* of successive characters of the alphabet do not overlap and have
\* increasing x.  Flat indices count from 0, positions of pixels from 1.
C17_MaximalRuns ==
    ~string_has_duplicate_chars(string) =>
        /\ \A c \in DOMAIN chars :
              /\ \A i \in chars[c].x .. (chars[c].x + chars[c].width - 1) :
                    pixels[i + 1] # pixels[1]
              /\ chars[c].x >= 1
              /\ pixels[chars[c].x] = pixels[1]
              /\ chars[c].x + chars[c].width < Len(pixels)
              /\ pixels[chars[c].x + chars[c].width + 1] = pixels[1]
        /\ DOMAIN chars = {string[n] : n \in 1..chars_len(chars)}
        /\ \A n \in 1..(chars_len(chars) - 1) :
              chars[string[n]].x + chars[string[n]].width
                  < chars[string[n + 1]].x

\* C17's case: a font with a glyph two pixels wide, of two different
\* non-border values
C17_Witness ==
    /\ fpc = "done"
    /\ font_result.kind = "Ok"
    /\ \E c \in DOMAIN chars :
          /\ chars[c].width = 2
          /\ pixels[chars[c].x + 1] # pixels[chars[c].x + 2]

\* what print is to advance the cursor by for the n-th character of text:
\* the width of its glyph, or 5 where the font has none
Advance(n) ==
    IF text[n] \in DOMAIN glyphs THEN glyphs[text[n]].width ELSE 5

\* the sum of the advances of the first n characters of text
RECURSIVE Offset(_)
Offset(n) == IF n = 0 THEN 0 ELSE Offset(n - 1) + Advance(n)

\* the positions among the first n of text whose character has a glyph
MappedPositions(n) == {k \in 1..n : text[k] \in DOMAIN glyphs}

\* the copies made so far are those of the characters with a glyph, in the
\* order of the text: the k-th character's glyph as source, and as
\* destination its width and height at x plus the advances of the
\* characters before it
CopiesAtOffsets ==
    /\ Len(copies) = Cardinality(MappedPositions(text_pos))
    /\ \A k \in MappedPositions(text_pos) :
          LET copy == copies[Cardinality(MappedPositions(k))]
          IN  /\ copy[1] = glyphs[text[k]]
              /\ copy[2] = [x |-> print_x + Offset(k - 1), y |-> print_y,
                            width |-> glyphs[text[k]].width,
                            height |-> glyphs[text[k]].height]

PrintReturned == ppc = "done" /\ print_result.kind = "Rect"

\* C13 as stated: each character with a glyph is copied to x plus the sum of
\* the advances (glyph width, or 5 without a glyph) of the characters
\* before it, a character without a glyph is not copied, and the rectangle
\* returned starts at (x, y), is as wide as the sum of all advances and as
\* high as the font.
C13_CursorArithmetic ==
    /\ CopiesAtOffsets
    /\ PrintReturned =>
          print_result.rect = [x |-> print_x, y |-> print_y,
                               width |-> Offset(Len(text)),
                               height |-> font_height]

\* C13, amended: as above, except that where the sum of the advances is 0
\* (a text without characters) the rectangle returned is 1 wide.
C13_CursorArithmeticNonZero ==
    /\ CopiesAtOffsets
    /\ ppc = "loop" => current_x = print_x + Offset(text_pos)
    /\ PrintReturned =>
          print_result.rect = [x |-> print_x, y |-> print_y,
                               width |-> IF Offset(Len(text)) = 0
                                         THEN 1 ELSE Offset(Len(text)),
                               height |-> font_height]

\* C13's case: a text of three characters printed at x = 10, the one in the
\* middle without a glyph, its neighbours with glyphs of widths 5 and 7
C13_Witness ==
    /\ PrintReturned
    /\ print_x = 10
    /\ Len(text) = 3
    /\ MappedPositions(3) = {1, 3}
    /\ glyphs[text[1]].width = 5
    /\ glyphs[text[3]].width = 7
    /\ Len(copies) = 2
    /\ copies[2][2].x = 20
    /\ print_result.rect.width = 17

\* C14: in every state after construction the window has a font: set_font
\* puts another in its place and nothing takes it away, and no print
\* reaches the panic "no font set on window".
C14_FontAlwaysSome ==
    /\ font \in Fonts
    /\ ret.op # "print panicked"
    /\ print_result.kind # "panic"

\* C14's case: a print that returned, with the font set_font put in place
\* of the default one, after a Quit was drained
C14_Witness ==
    /\ font = "custom"
    /\ ret.op = "print"
    /\ ~running
    /\ QuitPolled(polled)

\* the steps of the drain loop: it takes a native event only if the source
\* holds one, and is left only when the source holds none, by the return
DrainLoopStep ==
    /\ (pc = "drain" /\ pc' = "drain" /\ polled' # polled)
           => (pending # <<>> /\ pending' = Tail(pending))
    /\ (pc = "drain" /\ pc' # "drain")
           => (pending = <<>> /\ pc' = "idle" /\ ret'.op = "next_frame")

\* C18: a next_frame call made while running returns: once in its pacing
\* wait it leads to the return of true; and the wait is its only blocking
\* point: the drain loop takes a step only for an event the native source
\* holds, and the call returns from it only when the source holds none.
C18_FrameReturns ==
    /\ (pc = "wait") ~> (pc = "idle" /\ ret.op = "next_frame")
    /\ [][DrainLoopStep]_vars

\* C18's case: the second frame has returned, after a pacing wait, with two
\* native events drained
C18_Witness ==
    /\ pc = "idle"
    /\ ret.op = "next_frame"
    /\ ret.val = TRUE
    /\ presented = 3
    /\ ticks_at_previous_frame >= 2 * target_ticks_per_frame
    /\ Len(polled) = 2

\* the steps of a next_frame call made while running: it begins once, from
\* a running session, goes from the pacing wait to the drain loop and from
\* there returns; ticks_at_previous_frame is written on the step that ends
\* the wait and on no other, to the tick value read last, which is above
\* the value it replaces
ClockStep ==
    /\ (pc = "idle" /\ pc' # "idle")
           => (running /\ pc' = "wait" /\ presented' = presented + 1)
    /\ (pc = "wait" /\ pc' # "wait") => pc' = "drain"
    /\ (pc = "drain" /\ pc' # "drain") => pc' = "idle"
    /\ (ticks_at_previous_frame' # ticks_at_previous_frame)
           <=> (pc = "wait" /\ pc' = "drain")
    /\ (pc = "wait" /\ pc' = "drain")
           => /\ ticks_at_previous_frame' = current_ticks
              /\ current_ticks = now
    /\ ticks_at_previous_frame' >= ticks_at_previous_frame
    /\ now' >= now

\* C19: target_ticks_per_frame is 16 from construction on;
\* ticks_at_previous_frame is written only by a next_frame call made while
\* running, once in each such call, to the tick value that ended the pacing
\* wait, and it never decreases.
C19_ClockFields ==
    /\ [](target_ticks_per_frame = 16)
    /\ [][ClockStep]_vars

\* C19's case: the second next_frame call has just recorded a tick value,
\* more than target_ticks_per_frame above the one the first recorded
C19_Witness ==
    /\ pc = "drain"
    /\ presented = 3
    /\ prev_frame0 > target_ticks_per_frame
    /\ ticks_at_previous_frame = current_ticks
    /\ ticks_at_previous_frame - prev_frame0 > target_ticks_per_frame

\* the steps that touch the running flag and the event queue: a quit()
\* call changes the running flag and nothing else; the step that drains a
\* Quit leaves the queue as it is; a next_frame call, while it drains,
\* leaves in the queue what was there; and the queue gets shorter only by
\* its first event, which a next_event call returns, stopped or not
QueueStep ==
    /\ (pc = "idle" /\ running /\ ~running') => QuitCallStep
    /\ QuitDrainStep => event_queue' = event_queue
    /\ (pc # "idle" \/ pc' # "idle") =>
           SubSeq(event_queue', 1, Len(event_queue)) = event_queue
    /\ (event_queue' # event_queue /\ Len(event_queue') <= Len(event_queue))
           => /\ pc = "idle"
              /\ event_queue # <<>>
              /\ event_queue' = Tail(event_queue)
              /\ ret'.op = "next_event"
              /\ ret'.val = Head(event_queue)

\* C20: quit() changes only the running flag, so the events queued before
\* the Quit, or in the drain that met it, stay in the queue and next_event
\* returns them oldest first while the session is stopped: in a stopped
\* session the queue holds, in order, the last of the events pushed; and
\* neither next_frame nor quit empties the queue, which only loses its
\* first event to a next_event call.
C20_QuitKeepsQueue ==
    /\ [](~running => /\ pushed = popped + Len(event_queue)
                      /\ \A n \in 1..Len(event_queue) :
                             event_queue[n].seq = popped + n)
    /\ [][QueueStep]_vars

\* C20's case: the session was stopped by a Quit drained after another
\* event in the same drain, and that event was then returned by next_event
C20_Witness ==
    /\ ~running
    /\ QuitPolled(polled)
    /\ Len(polled) = 2
    /\ from_sdl2_event(polled[2]) = "Quit"
    /\ Len(Queued(polled)) = 1
    /\ ret.op = "next_event"
    /\ ret.val.seq = pushed
    /\ event_queue = <<>>

====
